---- MODULE Spec2Model ----
(***************************************************************************)
(* Model of scripts/parse-panini-checklist-csv.py: the checklist           *)
(* normalizer process_csv_with_pandas.  One run is a straight-line batch   *)
(* job: read the frame, group the rows (starts-with rule), merge the       *)
(* groups (equal base key sets), turn every merged group into a set        *)
(* object, wrap the sets into the release document.                        *)
(*                                                                         *)
(* Python strings are sequences of one-character strings, so that strip,   *)
(* isdigit, int, str, lower, startswith and "in" are computed, not         *)
(* assumed.  Python dicts are functions whose DOMAIN is the set of keys    *)
(* present, so that an omitted key, a None and an empty list differ.       *)
(* Column names with a space are written with an underscore.               *)
(***************************************************************************)
EXTENDS Integers, Sequences, FiniteSets, TLC

\* Largest number of rows of the input frame.
MaxRows == 3

\* Python's None, where it is stored next to integers (seq_value, _sequence,
\* set_numberedTo): every parsed sequence value is >= 0.
None == -1

----------------------------------------------------------------------------
\* Strings

Digits == <<"0", "1", "2", "3", "4", "5", "6", "7", "8", "9">>

UpperChars == <<"A", "B", "C", "D", "E", "F", "G", "H", "I", "J", "K", "L", "M",
                "N", "O", "P", "Q", "R", "S", "T", "U", "V", "W", "X", "Y", "Z">>

LowerChars == <<"a", "b", "c", "d", "e", "f", "g", "h", "i", "j", "k", "l", "m",
                "n", "o", "p", "q", "r", "s", "t", "u", "v", "w", "x", "y", "z">>

\* str.strip(chars): drop the characters of chars from both ends.
RECURSIVE LStrip(_, _)
LStrip(s, chars) ==
    IF s # <<>> /\ Head(s) \in chars THEN LStrip(Tail(s), chars) ELSE s

RECURSIVE RStrip(_, _)
RStrip(s, chars) ==
    IF s # <<>> /\ s[Len(s)] \in chars
    THEN RStrip(SubSeq(s, 1, Len(s) - 1), chars)
    ELSE s

StripChars(s, chars) == RStrip(LStrip(s, chars), chars)

\* str.isdigit(): non-empty and every character a digit.
IsDigit(s) ==
    /\ s # <<>>
    /\ \A p \in 1..Len(s) : \E d \in 1..10 : Digits[d] = s[p]

DigitVal(c) == (CHOOSE d \in 1..10 : Digits[d] = c) - 1

\* int(s) of an all-digits string.
RECURSIVE StrToInt(_)
StrToInt(s) ==
    IF s = <<>> THEN 0
    ELSE StrToInt(SubSeq(s, 1, Len(s) - 1)) * 10 + DigitVal(s[Len(s)])

\* str(n) of a non-negative integer.
RECURSIVE IntToStr(_)
IntToStr(n) ==
    IF n < 10 THEN <<Digits[n + 1]>>
    ELSE IntToStr(n \div 10) \o <<Digits[(n % 10) + 1]>>

\* str.lower()
LowerChar(c) ==
    IF \E p \in 1..26 : UpperChars[p] = c
    THEN LowerChars[CHOOSE p \in 1..26 : UpperChars[p] = c]
    ELSE c

Lower(s) == [p \in 1..Len(s) |-> LowerChar(s[p])]

\* s.startswith(prefix)
StartsWith(s, prefix) ==
    /\ Len(prefix) <= Len(s)
    /\ SubSeq(s, 1, Len(prefix)) = prefix

\* sub in s
Contains(s, sub) ==
    \E p \in 0..(Len(s) - Len(sub)) : SubSeq(s, p + 1, p + Len(sub)) = sub

normalize_text(s) == StripChars(s, {" "})

normalize_card_number(num_str) ==
    LET t == normalize_text(num_str)
    IN  IF IsDigit(t) THEN IntToStr(StrToInt(t)) ELSE t

\* seq_value = int(seq_str) if seq_str.isdigit() else None
seq_value_of(row) ==
    LET seq_str == normalize_text(row.SEQUENCE)
    IN  IF IsDigit(seq_str) THEN StrToInt(seq_str) ELSE None

get_attributes_for_set(set_name) ==
    LET lower_set == Lower(set_name)
        au == IF Contains(lower_set, <<"a", "u", "t", "o", "g", "r", "a", "p", "h">>)
              THEN <<"AU">> ELSE <<>>
        relic == IF Contains(lower_set, <<"r", "e", "l", "i", "c">>)
                 THEN <<"RELIC">> ELSE <<>>
    IN  au \o relic

get_base_keys(group) ==
    { <<normalize_card_number(group.base_rows[p].CARD_NUMBER),
        normalize_text(group.base_rows[p].ATHLETE)>> : p \in 1..Len(group.base_rows) }

\* Faulty variant: a group whose keys are among those of group1 is taken for a parallel.
is_parallel_candidate_subset(group1, group2) ==
    get_base_keys(group2) \subseteq get_base_keys(group1)

is_parallel_candidate(group1, group2) == get_base_keys(group1) = get_base_keys(group2)

----------------------------------------------------------------------------
\* Input frames

\* Frames that vary the sequence column of a base set and one parallel.
SeqCells ==
    [CARD_SET : {<<"T">>, <<"T", " ", "G">>},
     CARD_NUMBER : {<<"5">>, <<"7">>},
     ATHLETE : {<<"A">>},
     SEQUENCE : {<<>>, <<"3">>, <<"9">>}]

\* Frames with two base sets and a parallel: up to two parallel names per set.
ParCells ==
    [CARD_SET : {<<"T">>, <<"T", " ", "G">>, <<"R", "e", "l", "i", "c">>},
     CARD_NUMBER : {<<"5">>, <<"7">>},
     ATHLETE : {<<"A">>},
     SEQUENCE : {<<>>, <<"3">>}]

\* Frames that vary the card key (number, athlete) of two base sets.
KeyCells ==
    [CARD_SET : {<<"T">>, <<"T", "G">>},
     CARD_NUMBER : {<<"5">>, <<"0", "5">>, <<"7">>},
     ATHLETE : {<<"A">>, <<"B", " ">>},
     SEQUENCE : {<<>>}]

\* Frames that vary the card key of a base set, a parallel and a second base set.
KeyParCells ==
    [CARD_SET : {<<"T">>, <<"T", " ", "G">>, <<"T", "G">>},
     CARD_NUMBER : {<<"5">>, <<"0", "5">>},
     ATHLETE : {<<"A">>, <<"B", " ">>},
     SEQUENCE : {<<>>}]

\* Frames that vary the set name.
NameCells ==
    [CARD_SET : {<<"T">>, <<" ", "T">>, <<"T", "G">>, <<"T", " ", "G">>,
                 <<"T", " ", "-", " ", "G", "-">>, <<"T", " ", "-">>,
                 <<"A", "u", "t", "o", "G", "r", "a", "p", "h", "s">>,
                 <<"R", "E", "L", "I", "C", " ", "a", "u", "t", "o", "g", "r", "a", "p", "h">>},
     CARD_NUMBER : {<<"5">>},
     ATHLETE : {<<"A">>},
     SEQUENCE : {<<"x">>}]

Profiles == {SeqCells, ParCells, KeyCells, KeyParCells, NameCells}

\* pd.read_csv(...).fillna(""): the rows in file order, each with its index.
Frame(cells) == [p \in 1..Len(cells) |-> cells[p] @@ [idx |-> p - 1]]

----------------------------------------------------------------------------
\* State

VARIABLES
    df,                 \* the frame: sequence of rows
    pc,                 \* position in process_csv_with_pandas
    i,                  \* index of the next element of the running loop
    groups,             \* the group dicts, in creation order
    current_group,      \* <<>> (None) or <<group>>: the group being filled
    current_base,       \* its base set name
    merged_groups,      \* references (indices into groups) to the finalized groups
    base_cards,         \* locals of the set being synthesized
    base_card_numbers,
    uniform_base_seq,
    set_numberedTo,
    set_level_parallels,
    sets,               \* the set objects built so far
    top_obj,            \* <<>> or <<document>>
    next_uuid           \* number of generate_uuid() calls so far

vars == <<df, pc, i, groups, current_group, current_base, merged_groups,
          base_cards, base_card_numbers, uniform_base_seq, set_numberedTo,
          set_level_parallels, sets, top_obj, next_uuid>>

groupingVars == <<groups, current_group, current_base>>
synthVars == <<base_cards, base_card_numbers, uniform_base_seq, set_numberedTo,
               set_level_parallels>>

Init ==
    /\ \E profile \in Profiles : \E m \in 0..MaxRows : \E cells \in [1..m -> profile] :
          df = Frame(cells)
    /\ pc = "load"
    /\ i = 1
    /\ groups = <<>>
    /\ current_group = <<>>
    /\ current_base = <<>>
    /\ merged_groups = <<>>
    /\ base_cards = <<>>
    /\ base_card_numbers = {}
    /\ uniform_base_seq = FALSE
    /\ set_numberedTo = None
    /\ set_level_parallels = <<>>
    /\ sets = <<>>
    /\ top_obj = <<>>
    /\ next_uuid = 0

\* df.loc[0, "YEAR"] ...: raises on a frame without rows.
LoadMetadata ==
    /\ pc = "load"
    /\ pc' = IF Len(df) = 0 THEN "failed" ELSE "group"
    /\ UNCHANGED <<df, i, groupingVars, merged_groups, synthVars, sets, top_obj, next_uuid>>

NewGroup(card_set, row) ==
    [base_set |-> card_set, base_rows |-> <<row>>, parallel_rows |-> <<>>]

\* One iteration of "for _, row in df.iterrows()".
GroupRow ==
    /\ pc = "group"
    /\ i <= Len(df)
    /\ LET row == df[i]
           card_set == normalize_text(row.CARD_SET)
       IN  IF current_group = <<>>
           THEN /\ current_group' = <<NewGroup(card_set, row)>>
                /\ current_base' = card_set
                /\ UNCHANGED groups
           ELSE IF card_set = current_base \/ StartsWith(card_set, current_base \o <<" ">>)
           THEN /\ IF card_set = current_base
                   THEN current_group' =
                            <<[current_group[1] EXCEPT !.base_rows = Append(@, row)]>>
                   ELSE LET parallel_name ==
                                StripChars(
                                    normalize_text(
                                        SubSeq(card_set, Len(current_base) + 2, Len(card_set))),
                                    {" ", "-"})
                        IN  current_group' =
                                <<[current_group[1] EXCEPT
                                     !.parallel_rows = Append(@, <<row, parallel_name>>)]>>
                /\ UNCHANGED <<groups, current_base>>
           ELSE /\ groups' = Append(groups, current_group[1])
                /\ current_group' = <<NewGroup(card_set, row)>>
                /\ current_base' = card_set
    /\ i' = i + 1
    /\ UNCHANGED <<df, pc, merged_groups, synthVars, sets, top_obj, next_uuid>>

\* After the loop: "if current_group is not None: groups.append(current_group)".
GroupClose ==
    /\ pc = "group"
    /\ i > Len(df)
    /\ groups' = IF current_group # <<>> THEN Append(groups, current_group[1]) ELSE groups
    /\ pc' = "merge"
    /\ i' = 1
    /\ UNCHANGED <<df, current_group, current_base, merged_groups, synthVars, sets,
                   top_obj, next_uuid>>

\* The first finalized group that group is a parallel candidate of, 0 if none.
FirstCandidate(group) ==
    LET hits == { m \in 1..Len(merged_groups) :
                     is_parallel_candidate(groups[merged_groups[m]], group) }
    IN  IF hits = {} THEN 0 ELSE CHOOSE m \in hits : \A n \in hits : m <= n

\* Faulty variant: the base rows of a merged group are dropped.
BaseRowsAsParallels_dropped(group) == <<>>

BaseRowsAsParallels(group) ==
    [p \in 1..Len(group.base_rows) |-> <<group.base_rows[p], normalize_text(group.base_set)>>]

\* One iteration of "for group in groups".
MergeGroup ==
    /\ pc = "merge"
    /\ i <= Len(groups)
    /\ LET group == groups[i]
           m == FirstCandidate(group)
       IN  IF m # 0
           THEN /\ groups' = [groups EXCEPT ![merged_groups[m]].parallel_rows =
                                 @ \o BaseRowsAsParallels(group) \o group.parallel_rows]
                /\ UNCHANGED merged_groups
           ELSE /\ merged_groups' = Append(merged_groups, i)
                /\ UNCHANGED groups
    /\ i' = IF i = Len(groups) THEN 1 ELSE i + 1
    /\ pc' = IF i = Len(groups) THEN "base" ELSE "merge"
    /\ UNCHANGED <<df, current_group, current_base, synthVars, sets, top_obj, next_uuid>>

----------------------------------------------------------------------------
\* Dicts

WithKey(d, k, v) == [x \in (DOMAIN d) \cup {k} |-> IF x = k THEN v ELSE d[x]]

WithoutKey(d, k) == [x \in (DOMAIN d) \ {k} |-> d[x]]

HasKey(d, k) == k \in DOMAIN d

\* The finalized group the synthesis loop is at.
group_at(k) == groups[merged_groups[k]]

----------------------------------------------------------------------------
\* Synthesis, base cards

\* card_obj as built in the loop over base_rows; uuid is the value generate_uuid() returns.
base_card_obj(row, set_attributes, uuid) ==
    LET card_obj == [uniqueId |-> uuid,
                     number |-> normalize_card_number(row.CARD_NUMBER),
                     name |-> normalize_text(row.ATHLETE),
                     _sequence |-> seq_value_of(row),
                     parallels |-> <<>>]
    IN  IF set_attributes # <<>>
        THEN WithKey(card_obj, "attributes", set_attributes)
        ELSE card_obj

base_sequences_of(base_rows) ==
    { seq_value_of(base_rows[p]) : p \in { q \in 1..Len(base_rows) :
                                             seq_value_of(base_rows[q]) # None } }

\* "base_sequences and len(base_sequences) == 1 and (None not in base_sequences)"
is_uniform(sequences) ==
    /\ sequences # {}
    /\ Cardinality(sequences) = 1
    /\ None \notin sequences

\* Faulty variant: the empty parallels list of a base card is kept.
clean_up_keeps_empty(card_obj, uniform) ==
    LET numbered == IF ~uniform /\ card_obj["_sequence"] # None
                    THEN WithKey(card_obj, "numberedTo", card_obj["_sequence"])
                    ELSE card_obj
    IN  WithoutKey(numbered, "_sequence")

\* "Clean up base card objects."
clean_up(card_obj, uniform) ==
    LET numbered == IF ~uniform /\ card_obj["_sequence"] # None
                    THEN WithKey(card_obj, "numberedTo", card_obj["_sequence"])
                    ELSE card_obj
        popped == WithoutKey(numbered, "_sequence")
    IN  IF HasKey(popped, "parallels") /\ popped["parallels"] = <<>>
        THEN WithoutKey(popped, "parallels")
        ELSE popped

\* Top of one iteration of "for group in merged_groups", down to the clean-up.
SynthBase ==
    /\ pc = "base"
    /\ LET group == group_at(i)
           base_rows == group.base_rows
           set_attributes == get_attributes_for_set(group.base_set)
           base_sequences == base_sequences_of(base_rows)
           uniform == is_uniform(base_sequences)
       IN  /\ base_card_numbers' =
                  { normalize_card_number(base_rows[p].CARD_NUMBER) : p \in 1..Len(base_rows) }
           /\ uniform_base_seq' = uniform
           /\ set_numberedTo' = IF uniform THEN CHOOSE v \in base_sequences : TRUE
                                ELSE set_numberedTo
           /\ base_cards' = [p \in 1..Len(base_rows) |->
                                clean_up(base_card_obj(base_rows[p], set_attributes,
                                                       next_uuid + p), uniform)]
           /\ next_uuid' = next_uuid + Len(base_rows)
    /\ set_level_parallels' = <<>>
    /\ pc' = "parallels"
    /\ UNCHANGED <<df, i, groupingVars, merged_groups, sets, top_obj>>

----------------------------------------------------------------------------
\* Synthesis, parallels

\* Keys of parallels_by_name in insertion order: the names by first appearance.
RECURSIVE parallel_names(_)
parallel_names(parallel_rows) ==
    IF parallel_rows = <<>> THEN <<>>
    ELSE LET front == parallel_names(SubSeq(parallel_rows, 1, Len(parallel_rows) - 1))
             name == parallel_rows[Len(parallel_rows)][2]
         IN  IF \E p \in 1..Len(front) : front[p] = name THEN front ELSE Append(front, name)

\* parallels_by_name[parallel_name]
RECURSIVE rows_list_of(_, _)
rows_list_of(parallel_rows, parallel_name) ==
    IF parallel_rows = <<>> THEN <<>>
    ELSE LET rest == rows_list_of(Tail(parallel_rows), parallel_name)
         IN  IF Head(parallel_rows)[2] = parallel_name
             THEN <<Head(parallel_rows)[1]>> \o rest
             ELSE rest

parallel_obj_of(parallel_name, numbered) ==
    IF numbered # None
    THEN [name |-> parallel_name, numberedTo |-> numbered]
    ELSE [name |-> parallel_name]

\* Faulty variant: the new card is built without the note.
new_card_obj_without_note(row, parallel_obj, set_attributes, uuid) ==
    LET seq_value == seq_value_of(row)
        new_card == [uniqueId |-> uuid,
                     number |-> normalize_card_number(row.CARD_NUMBER),
                     name |-> normalize_text(row.ATHLETE)]
        numbered == IF seq_value # None THEN WithKey(new_card, "numberedTo", seq_value)
                    ELSE new_card
        withpar == WithKey(numbered, "parallels", <<parallel_obj>>)
    IN  IF set_attributes # <<>>
        THEN WithKey(withpar, "attributes", set_attributes)
        ELSE withpar

\* "Create a new card record for this card number with a note."
new_card_obj(row, parallel_obj, set_attributes, uuid) ==
    LET seq_value == seq_value_of(row)
        new_card == [uniqueId |-> uuid,
                     number |-> normalize_card_number(row.CARD_NUMBER),
                     name |-> normalize_text(row.ATHLETE),
                     note |-> "No Base Set Version"]
        numbered == IF seq_value # None THEN WithKey(new_card, "numberedTo", seq_value)
                    ELSE new_card
        withpar == WithKey(numbered, "parallels", <<parallel_obj>>)
    IN  IF set_attributes # <<>>
        THEN WithKey(withpar, "attributes", set_attributes)
        ELSE withpar

\* Faulty variant: a row whose number no card has is dropped.
attach_row_or_drop(acc, row, parallel_name, set_attributes) ==
    LET card_number == normalize_card_number(row.CARD_NUMBER)
        parallel_obj == parallel_obj_of(parallel_name, seq_value_of(row))
        hits == { p \in 1..Len(acc.cards) : acc.cards[p]["number"] = card_number }
    IN  IF hits # {}
        THEN LET p == CHOOSE q \in hits : \A r \in hits : q <= r
                 card_obj == acc.cards[p]
                 had == IF HasKey(card_obj, "parallels") THEN card_obj["parallels"] ELSE <<>>
             IN  [acc EXCEPT !.cards[p] = WithKey(card_obj, "parallels",
                                                  Append(had, parallel_obj))]
        ELSE acc

\* One iteration of "for row in rows_list" of the card-level branch.
\* acc = [cards, numbers, set_level, uuid]: base_cards, base_card_numbers,
\* set_level_parallels and the generate_uuid() count.
attach_row(acc, row, parallel_name, set_attributes) ==
    LET card_number == normalize_card_number(row.CARD_NUMBER)
        parallel_obj == parallel_obj_of(parallel_name, seq_value_of(row))
        hits == { p \in 1..Len(acc.cards) : acc.cards[p]["number"] = card_number }
    IN  IF hits # {}
        THEN LET p == CHOOSE q \in hits : \A r \in hits : q <= r
                 card_obj == acc.cards[p]
                 had == IF HasKey(card_obj, "parallels") THEN card_obj["parallels"] ELSE <<>>
             IN  [acc EXCEPT !.cards[p] = WithKey(card_obj, "parallels",
                                                  Append(had, parallel_obj))]
        ELSE [acc EXCEPT
                !.cards = Append(@, new_card_obj(row, parallel_obj, set_attributes,
                                                 acc.uuid + 1)),
                !.numbers = @ \cup {card_number},
                !.uuid = @ + 1]

RECURSIVE attach_rows(_, _, _, _)
attach_rows(acc, rows_list, parallel_name, set_attributes) ==
    IF rows_list = <<>> THEN acc
    ELSE attach_rows(attach_row(acc, Head(rows_list), parallel_name, set_attributes),
                     Tail(rows_list), parallel_name, set_attributes)

parallel_card_numbers_of(rows_list) ==
    { normalize_card_number(rows_list[p].CARD_NUMBER) : p \in 1..Len(rows_list) }

\* "If the parallel covers all base cards, attach at the set level."
covers_base(parallel_card_numbers, numbers) == parallel_card_numbers = numbers

\* One iteration of "for parallel_name, rows_list in parallels_by_name.items()".
process_parallel(acc, parallel_name, rows_list, set_attributes) ==
    LET parallel_sequences == base_sequences_of(rows_list)
    IN  IF covers_base(parallel_card_numbers_of(rows_list), acc.numbers)
        THEN [acc EXCEPT !.set_level =
                 Append(@, parallel_obj_of(parallel_name,
                                           IF is_uniform(parallel_sequences)
                                           THEN CHOOSE v \in parallel_sequences : TRUE
                                           ELSE None))]
        ELSE attach_rows(acc, rows_list, parallel_name, set_attributes)

RECURSIVE process_parallels(_, _, _, _)
process_parallels(acc, names, parallel_rows, set_attributes) ==
    IF names = <<>> THEN acc
    ELSE process_parallels(
             process_parallel(acc, Head(names), rows_list_of(parallel_rows, Head(names)),
                              set_attributes),
             Tail(names), parallel_rows, set_attributes)

\* "Process parallel rows.": the grouping by name and the loop over the names.
SynthParallels ==
    /\ pc = "parallels"
    /\ LET group == group_at(i)
           acc == process_parallels(
                      [cards |-> base_cards, numbers |-> base_card_numbers,
                       set_level |-> <<>>, uuid |-> next_uuid],
                      parallel_names(group.parallel_rows), group.parallel_rows,
                      get_attributes_for_set(group.base_set))
       IN  /\ base_cards' = acc.cards
           /\ base_card_numbers' = acc.numbers
           /\ set_level_parallels' = acc.set_level
           /\ next_uuid' = acc.uuid
    /\ pc' = "dedup"
    /\ UNCHANGED <<df, i, groupingVars, merged_groups, uniform_base_seq, set_numberedTo,
                   sets, top_obj>>

----------------------------------------------------------------------------
\* Synthesis, duplicate removal and the set object

\* Faulty variant: cards are told apart by their number alone.
card_key_number_only(card) == <<card["number"], <<>>>>

card_key(card) == <<card["number"], card["name"]>>

\* "Duplicate Removal Step": the loop over base_cards with seen_keys.
RECURSIVE unique_cards_of(_, _, _)
unique_cards_of(cards, seen_keys, unique_cards) ==
    IF cards = <<>> THEN unique_cards
    ELSE IF card_key(Head(cards)) \in seen_keys
         THEN unique_cards_of(Tail(cards), seen_keys, unique_cards)
         ELSE unique_cards_of(Tail(cards), seen_keys \cup {card_key(Head(cards))},
                              Append(unique_cards, Head(cards)))

remove_duplicates(cards) == unique_cards_of(cards, {}, <<>>)

\* "Build the set object."
set_obj_of(base_set, cards, parallels, uniform, numbered, uuid) ==
    LET set_obj == [uniqueId |-> uuid,
                    name |-> base_set,
                    cards |-> cards,
                    parallels |-> parallels,
                    variations |-> <<>>]
    IN  IF uniform THEN WithKey(set_obj, "numberedTo", numbered) ELSE set_obj

\* Rest of the iteration: duplicate removal, set_obj, sets.append(set_obj).
SynthDedup ==
    /\ pc = "dedup"
    /\ base_cards' = remove_duplicates(base_cards)
    /\ sets' = Append(sets, set_obj_of(group_at(i).base_set, base_cards', set_level_parallels,
                                       uniform_base_seq, set_numberedTo, next_uuid + 1))
    /\ next_uuid' = next_uuid + 1
    /\ i' = IF i = Len(merged_groups) THEN 1 ELSE i + 1
    /\ pc' = IF i = Len(merged_groups) THEN "assemble" ELSE "base"
    /\ UNCHANGED <<df, groupingVars, merged_groups, base_card_numbers, uniform_base_seq,
                   set_numberedTo, set_level_parallels, top_obj>>

\* top_obj and the return.  The release metadata columns (YEAR, BRAND, PROGRAM,
\* SPORT) and the "name" built from them are left out.
Assemble ==
    /\ pc = "assemble"
    /\ top_obj' = <<[schema |-> "http://json-schema.org/draft-07/schema#",
                     version |-> "1.0",
                     uniqueId |-> next_uuid + 1,
                     attributes |-> <<>>,
                     notes |-> <<>>,
                     sets |-> sets]>>
    /\ next_uuid' = next_uuid + 1
    /\ pc' = "done"
    /\ UNCHANGED <<df, i, groupingVars, merged_groups, synthVars, sets>>

Next ==
    \/ LoadMetadata
    \/ GroupRow
    \/ GroupClose
    \/ MergeGroup
    \/ SynthBase
    \/ SynthParallels
    \/ SynthDedup
    \/ Assemble

Spec == Init /\ [][Next]_vars

----------------------------------------------------------------------------
\* Properties

Done == pc = "done"

\* The rows a group holds, base rows first.
HeldRows(group) ==
    group.base_rows \o [p \in 1..Len(group.parallel_rows) |-> group.parallel_rows[p][1]]

RECURSIVE HeldBy(_)
HeldBy(gs) == IF gs = <<>> THEN <<>> ELSE HeldRows(Head(gs)) \o HeldBy(Tail(gs))

\* held lists every row of the frame once, and nothing else.
EachRowOnce(held) ==
    /\ Len(held) = Len(df)
    /\ \A r \in 1..Len(df) : \E p \in 1..Len(held) : held[p] = df[r]

Finalized == [k \in 1..Len(merged_groups) |-> groups[merged_groups[k]]]

GroupingOver == pc = "merge" /\ i = 1
MergingOver == pc \in {"base", "parallels", "dedup", "assemble", "done"}

\* C1: after the grouping pass the groups, and after the merging pass the
\* finalized groups, hold every row of the frame exactly once (base_rows and
\* parallel_rows together): no row is lost and none is held twice.
C1_PartitionComplete ==
    /\ GroupingOver => EachRowOnce(HeldBy(groups))
    /\ MergingOver => EachRowOnce(HeldBy(Finalized))

\* A run of three rows in which a group with a parallel row was merged into another.
C1_Witness ==
    /\ Done
    /\ Len(df) = 3
    /\ Len(merged_groups) < Len(groups)
    /\ \E k \in 1..Len(merged_groups) :
          \E p, q \in 1..Len(Finalized[k].parallel_rows) :
             Finalized[k].parallel_rows[p][2] # Finalized[k].parallel_rows[q][2]

\* The (canonical number, trimmed athlete) pairs of a list of rows.
KeysOfRows(rows) ==
    { <<normalize_card_number(rows[p].CARD_NUMBER), normalize_text(rows[p].ATHLETE)>> :
         p \in 1..Len(rows) }

\* The finalized groups whose base key set is exactly that of group.
ExactMatches(group) ==
    { m \in 1..Len(merged_groups) :
         KeysOfRows(Finalized[m].base_rows) = KeysOfRows(group.base_rows) }

\* What one merging step does with the group B it is at.
C7_Step ==
    LET B == groups[i]
        matches == ExactMatches(B)
    IN  IF matches = {}
        THEN /\ merged_groups' = Append(merged_groups, i)
             /\ groups' = groups
        ELSE LET m == CHOOSE x \in matches : \A y \in matches : x <= y
                 A == merged_groups[m]
             IN  /\ merged_groups' = merged_groups
                 /\ \A g \in 1..Len(groups) : g # A => groups'[g] = groups[g]
                 /\ groups'[A].base_set = groups[A].base_set
                 /\ groups'[A].parallel_rows =
                        groups[A].parallel_rows
                        \o [p \in 1..Len(B.base_rows) |-> <<B.base_rows[p], B.base_set>>]
                        \o B.parallel_rows

\* C7: a merging step merges group B into the first finalized group whose
\* base key set {(canonical number, trimmed athlete)} equals B's exactly (B's
\* base rows become parallel rows named B's base_set, B's parallel rows are
\* appended unchanged) and finalizes B exactly when there is none; no step
\* changes the base_rows of a finalized group, and no two finalized groups
\* ever have equal base key sets.
C7_FirstExactMatch ==
    [][ /\ pc = "merge" => C7_Step
        /\ \A k \in 1..Len(merged_groups) :
              groups'[merged_groups[k]].base_rows = groups[merged_groups[k]].base_rows
        /\ \A a, b \in 1..Len(merged_groups') :
              a # b => KeysOfRows(groups'[merged_groups'[a]].base_rows)
                       # KeysOfRows(groups'[merged_groups'[b]].base_rows) ]_vars

\* A group with a base row and a parallel row was merged into an earlier group.
C7_Witness ==
    /\ Done
    /\ \E g \in 1..Len(groups) :
          /\ \A k \in 1..Len(merged_groups) : merged_groups[k] # g
          /\ groups[g].parallel_rows # <<>>
          /\ \E k \in 1..Len(merged_groups) :
                /\ merged_groups[k] < g
                /\ KeysOfRows(groups[g].base_rows) = KeysOfRows(Finalized[k].base_rows)
                /\ Len(Finalized[k].parallel_rows) = 2

----------------------------------------------------------------------------
\* Properties of the sets.  Set k is built from finalized group k.

KeyOf(card) == <<card["number"], card["name"]>>

RowKey(row) == <<normalize_card_number(row.CARD_NUMBER), normalize_text(row.ATHLETE)>>

RowNumber(row) == normalize_card_number(row.CARD_NUMBER)

BaseNumbers(group) == { RowNumber(group.base_rows[p]) : p \in 1..Len(group.base_rows) }

ParallelNames(group) == { group.parallel_rows[p][2] : p \in 1..Len(group.parallel_rows) }

\* Positions of the parallel rows of a name.
RowsNamed(group, name) ==
    { p \in 1..Len(group.parallel_rows) : group.parallel_rows[p][2] = name }

SetLevelNames(set_obj) == { set_obj.parallels[p].name : p \in 1..Len(set_obj.parallels) }

CardParallels(card) == IF HasKey(card, "parallels") THEN card["parallels"] ELSE <<>>

\* Positions of the parallel rows that were attached row by row.
CardLevelRows(group, set_obj) ==
    { p \in 1..Len(group.parallel_rows) :
         group.parallel_rows[p][2] \notin SetLevelNames(set_obj) }

\* The positions of cards that hold the first card of their key.
FirstOfKey(cards) ==
    { p \in 1..Len(cards) : \A q \in 1..(p - 1) : KeyOf(cards[q]) # KeyOf(cards[p]) }

\* The j-th smallest element of a set of numbers.
Nth(S, j) == CHOOSE p \in S : Cardinality({ q \in S : q < p }) = j - 1

KeepFirst(cards) ==
    [j \in 1..Cardinality(FirstOfKey(cards)) |-> cards[Nth(FirstOfKey(cards), j)]]

NoSharedKey(cards) ==
    \A p, q \in 1..Len(cards) : p # q => KeyOf(cards[p]) # KeyOf(cards[q])

\* A numeric card number is written without leading zeros.
CanonicalNumbers(cards) ==
    \A p \in 1..Len(cards) :
       IsDigit(cards[p]["number"]) =>
          Len(cards[p]["number"]) = 1 \/ cards[p]["number"][1] # "0"

\* C5: the card list of a set is the constructed list with every later card of
\* an already seen (number, name) key removed, first occurrence kept and order
\* preserved; no two of its cards share a key; removing duplicates again
\* changes nothing; numbers are canonical, so that base rows "5" and "05" of
\* one athlete give one card numbered "5".
C5_DedupFirstKept ==
    [][ pc = "dedup" =>
          LET out == sets'[Len(sets')]["cards"]
              base_rows == group_at(i).base_rows
          IN  /\ Len(sets') = Len(sets) + 1
              /\ out = KeepFirst(base_cards)
              /\ NoSharedKey(out)
              /\ remove_duplicates(out) = out
              /\ CanonicalNumbers(out)
              /\ \A r \in 1..Len(base_rows) :
                    Cardinality({ p \in 1..Len(out) : KeyOf(out[p]) = RowKey(base_rows[r]) })
                    = 1 ]_vars

\* Base rows numbered "5" and "05" of one athlete ended as one card numbered "5".
C5_Witness ==
    /\ Done
    /\ \E k \in 1..Len(sets) :
          /\ Len(Finalized[k].base_rows) = 2
          /\ Finalized[k].base_rows[1].CARD_NUMBER # Finalized[k].base_rows[2].CARD_NUMBER
          /\ Len(sets[k]["cards"]) = 1
          /\ sets[k]["cards"][1]["number"] = <<"5">>

----------------------------------------------------------------------------

SparseParallel(par) == HasKey(par, "numberedTo") => par["numberedTo"] # None

SparseParallels(pars) == \A p \in 1..Len(pars) : SparseParallel(pars[p])

SparseCard(card) ==
    /\ ~HasKey(card, "_sequence")
    /\ HasKey(card, "numberedTo") => card["numberedTo"] # None
    /\ HasKey(card, "attributes") => card["attributes"] # <<>>
    /\ HasKey(card, "note") => card["note"] # ""
    /\ HasKey(card, "parallels") =>
          card["parallels"] # <<>> /\ SparseParallels(card["parallels"])

SparseCardsOf(set_obj) ==
    /\ \A p \in 1..Len(set_obj["cards"]) : SparseCard(set_obj["cards"][p])
    /\ SparseParallels(set_obj["parallels"])
    /\ HasKey(set_obj, "numberedTo") => set_obj["numberedTo"] # None

\* C6 as stated: at every level of the document, numberedTo, attributes, note
\* and parallels are left out when empty or absent, never None and never an
\* empty list.
C6_SparseEverywhere ==
    Done =>
       /\ top_obj[1]["attributes"] # <<>>
       /\ \A k \in 1..Len(top_obj[1]["sets"]) :
             /\ SparseCardsOf(top_obj[1]["sets"][k])
             /\ top_obj[1]["sets"][k]["parallels"] # <<>>

\* C6 amended: every card and every parallel leaves out numberedTo,
\* attributes, note and parallels when empty or absent, and a set leaves out
\* numberedTo when absent; the parallels list of a set and the attributes list
\* of the document are always written, empty or not.
C6_SparseCardsAndParallels ==
    Done =>
       /\ HasKey(top_obj[1], "attributes")
       /\ \A k \in 1..Len(top_obj[1]["sets"]) :
             /\ SparseCardsOf(top_obj[1]["sets"][k])
             /\ HasKey(top_obj[1]["sets"][k], "parallels")

\* A document with a card that has none of the four fields next to a card
\* that has a note and parallels, in a set without numberedTo.
C6_Witness ==
    /\ Done
    /\ \E k \in 1..Len(top_obj[1]["sets"]) :
          LET set_obj == top_obj[1]["sets"][k]
          IN  /\ ~HasKey(set_obj, "numberedTo")
              /\ \E p, q \in 1..Len(set_obj["cards"]) :
                    /\ DOMAIN set_obj["cards"][p] = {"uniqueId", "number", "name"}
                    /\ HasKey(set_obj["cards"][q], "note")
                    /\ HasKey(set_obj["cards"][q], "parallels")

----------------------------------------------------------------------------

RECURSIVE CardLevelEntries(_)
CardLevelEntries(cards) ==
    IF cards = <<>> THEN 0
    ELSE Len(CardParallels(Head(cards))) + CardLevelEntries(Tail(cards))

\* The cards, set-level parallels and card-level parallels of a set.
ItemCount(set_obj) ==
    Len(set_obj["cards"]) + Len(set_obj["parallels"]) + CardLevelEntries(set_obj["cards"])

\* The parallel entry a parallel row is written as.
EntryOf(prow) == parallel_obj_of(prow[2], seq_value_of(prow[1]))

\* Every row of the group is accounted for in the set, and every item of the
\* set by a row.
Accounted(group, set_obj) ==
    LET cards == set_obj["cards"]
        level == set_obj["parallels"]
    IN  /\ \A r \in 1..Len(group.base_rows) :
              Cardinality({ p \in 1..Len(cards) : KeyOf(cards[p]) = RowKey(group.base_rows[r]) })
              = 1
        /\ \A r \in 1..Len(group.parallel_rows) :
              LET prow == group.parallel_rows[r]
              IN  IF prow[2] \in SetLevelNames(set_obj)
                  THEN Cardinality({ p \in 1..Len(level) : level[p].name = prow[2] }) = 1
                  ELSE \E p \in 1..Len(cards) :
                          /\ cards[p]["number"] = RowNumber(prow[1])
                          /\ \E e \in 1..Len(CardParallels(cards[p])) :
                                CardParallels(cards[p])[e] = EntryOf(prow)
        /\ CardLevelEntries(cards) = Cardinality(CardLevelRows(group, set_obj))
        /\ SetLevelNames(set_obj) \subseteq ParallelNames(group)
        /\ \A p \in 1..Len(cards) :
              \/ \E r \in 1..Len(group.base_rows) : KeyOf(cards[p]) = RowKey(group.base_rows[r])
              \/ \E r \in CardLevelRows(group, set_obj) :
                    KeyOf(cards[p]) = RowKey(group.parallel_rows[r][1])

\* C9 as stated: every row is exactly one output item of its own, a card of
\* the final list or a parallel entry, so a set has as many items as its
\* group has rows.
C9_OneItemPerRow ==
    Done => \A k \in 1..Len(sets) :
               /\ Accounted(Finalized[k], sets[k])
               /\ ItemCount(sets[k]) = Len(HeldRows(Finalized[k]))

\* C9 amended: every row is accounted for in the set of its group, and every
\* item by a row: a base row by the one card of the final list with its
\* (canonical number, trimmed name) key, which base rows of equal key share;
\* a parallel row by the one set-level parallel of its name, which all rows of
\* that name share, or else by a card-level parallel entry of its own on a
\* card of the final list with its canonical number (a card made for it when
\* there was none).
C9_EveryRowAccounted ==
    Done => /\ Len(sets) = Len(merged_groups)
            /\ \A k \in 1..Len(sets) : Accounted(Finalized[k], sets[k])

\* A row attached at card level got a card made for it: one row, two items.
C9_Witness ==
    /\ Done
    /\ \E k \in 1..Len(sets) :
          /\ CardLevelRows(Finalized[k], sets[k]) # {}
          /\ Len(sets[k]["cards"]) > Cardinality(KeysOfRows(Finalized[k].base_rows))
          /\ ItemCount(sets[k]) # Len(HeldRows(Finalized[k]))

----------------------------------------------------------------------------

\* Positions of the rows attached at card level whose number no base row has.
UnmatchedRows(group, set_obj) ==
    { r \in CardLevelRows(group, set_obj) :
         RowNumber(group.parallel_rows[r][1]) \notin BaseNumbers(group) }

\* The cards of the set with the number of a row.
CardsNumbered(set_obj, number) ==
    { p \in 1..Len(set_obj["cards"]) : set_obj["cards"][p]["number"] = number }

Placeholder(group, set_obj, card, prow) ==
    /\ HasKey(card, "note") /\ card["note"] = "No Base Set Version"
    /\ \E e \in 1..Len(CardParallels(card)) : CardParallels(card)[e] = EntryOf(prow)
    /\ IF get_attributes_for_set(group.base_set) = <<>>
       THEN ~HasKey(card, "attributes")
       ELSE HasKey(card, "attributes")
            /\ card["attributes"] = get_attributes_for_set(group.base_set)

BaseCardsWithoutNote(group, set_obj) ==
    \A p \in 1..Len(set_obj["cards"]) :
       set_obj["cards"][p]["number"] \in BaseNumbers(group) =>
          ~HasKey(set_obj["cards"][p], "note")

\* C10 as stated: every row attached at card level whose number no base card
\* has gets a new card with the note, the set's attribute codes and that
\* parallel as its sole parallel, present in the final list; cards of base
\* rows never carry the note.
C10_NewCardPerRow ==
    Done => \A k \in 1..Len(sets) :
               /\ BaseCardsWithoutNote(Finalized[k], sets[k])
               /\ \A r \in UnmatchedRows(Finalized[k], sets[k]) :
                     LET prow == Finalized[k].parallel_rows[r]
                     IN  \E p \in CardsNumbered(sets[k], RowNumber(prow[1])) :
                            /\ Placeholder(Finalized[k], sets[k], sets[k]["cards"][p], prow)
                            /\ sets[k]["cards"][p]["parallels"] = <<EntryOf(prow)>>

\* C10 amended: for every row attached at card level whose number no base
\* card has, the final list has exactly one card with that number; it carries
\* the note, the set's attribute codes and that row's parallel, which is its
\* sole parallel unless further rows attached at card level have the same
\* number: they are attached to the same card, one entry each, instead of
\* getting a card of their own.  Cards of base rows never carry the note.
C10_OnePlaceholderPerNumber ==
    Done => \A k \in 1..Len(sets) :
               /\ BaseCardsWithoutNote(Finalized[k], sets[k])
               /\ \A r \in UnmatchedRows(Finalized[k], sets[k]) :
                     LET prow == Finalized[k].parallel_rows[r]
                         hits == CardsNumbered(sets[k], RowNumber(prow[1]))
                     IN  /\ Cardinality(hits) = 1
                         /\ \A p \in hits :
                               /\ Placeholder(Finalized[k], sets[k], sets[k]["cards"][p], prow)
                               /\ Len(sets[k]["cards"][p]["parallels"]) =
                                     Cardinality({ q \in UnmatchedRows(Finalized[k], sets[k]) :
                                        RowNumber(Finalized[k].parallel_rows[q][1])
                                        = RowNumber(prow[1]) })

\* A set with attribute codes got a card for a parallel row without base card.
C10_Witness ==
    /\ Done
    /\ \E k \in 1..Len(sets) :
          /\ UnmatchedRows(Finalized[k], sets[k]) # {}
          /\ get_attributes_for_set(Finalized[k].base_set) # <<>>
          /\ Len(sets[k]["cards"]) = Len(Finalized[k].base_rows) + 1

----------------------------------------------------------------------------

\* The parsed sequence values of the base rows, None for a row without one.
BaseSequenceValues(group) ==
    { seq_value_of(group.base_rows[p]) : p \in 1..Len(group.base_rows) }

\* Every base row has an all-digits sequence, and all have the same value.
UniformBase(group) ==
    /\ None \notin BaseSequenceValues(group)
    /\ Cardinality(BaseSequenceValues(group)) = 1

\* The base rows that are the first of their key: their cards are the kept ones.
FirstBaseRows(group) ==
    { r \in 1..Len(group.base_rows) :
         \A q \in 1..(r - 1) : RowKey(group.base_rows[q]) # RowKey(group.base_rows[r]) }

\* C2: a set carries numberedTo = V exactly when every base row of its group
\* has an all-digits sequence and all values equal V; otherwise the set has
\* no numberedTo and each base card has its own numberedTo exactly when its
\* sequence is numeric.
C2_SetNumberedToIffUniform ==
    Done => \A k \in 1..Len(sets) :
               IF UniformBase(Finalized[k])
               THEN /\ HasKey(sets[k], "numberedTo")
                    /\ sets[k]["numberedTo"] \in BaseSequenceValues(Finalized[k])
               ELSE /\ ~HasKey(sets[k], "numberedTo")
                    /\ \A r \in FirstBaseRows(Finalized[k]) :
                          LET row == Finalized[k].base_rows[r]
                          IN  \A p \in 1..Len(sets[k]["cards"]) :
                                 KeyOf(sets[k]["cards"][p]) = RowKey(row) =>
                                    IF seq_value_of(row) = None
                                    THEN ~HasKey(sets[k]["cards"][p], "numberedTo")
                                    ELSE /\ HasKey(sets[k]["cards"][p], "numberedTo")
                                         /\ sets[k]["cards"][p]["numberedTo"]
                                               = seq_value_of(row)

\* C3: a parallel name is recorded at set level exactly when the canonical
\* numbers of its rows are those of the base rows of the group, whatever
\* parallel names were processed before it.
C3_SetLevelIffCoversBase ==
    Done => \A k \in 1..Len(sets) : \A name \in ParallelNames(Finalized[k]) :
               (name \in SetLevelNames(sets[k]))
               <=> ({ RowNumber(Finalized[k].parallel_rows[r][1]) :
                         r \in RowsNamed(Finalized[k], name) }
                    = BaseNumbers(Finalized[k]))

\* C4: a set-level parallel carries numberedTo = V only when all the rows of
\* its name have an all-digits sequence of value V.
C4_ParallelNumberedToOnlyIfAllRows ==
    Done => \A k \in 1..Len(sets) : \A p \in 1..Len(sets[k]["parallels"]) :
               HasKey(sets[k]["parallels"][p], "numberedTo") =>
                  \A r \in RowsNamed(Finalized[k], sets[k]["parallels"][p]["name"]) :
                     seq_value_of(Finalized[k].parallel_rows[r][1])
                     = sets[k]["parallels"][p]["numberedTo"]

\* C8: when all base rows of a group share one sequence value V, the set has
\* numberedTo = V and no card of its list has a numberedTo of its own.
C8_UniformCollapse ==
    Done => \A k \in 1..Len(sets) :
               UniformBase(Finalized[k]) =>
                  /\ HasKey(sets[k], "numberedTo")
                  /\ sets[k]["numberedTo"] \in BaseSequenceValues(Finalized[k])
                  /\ \A p \in 1..Len(sets[k]["cards"]) :
                        ~HasKey(sets[k]["cards"][p], "numberedTo")

====
